---- MODULE Spec2Model ----
(***************************************************************************)
(* Vessel risk-assessment engine of the Tobin Bridge monitor               *)
(* (src/vessel_analysis.py) and the per-report pipeline that drives it     *)
(* (src/dashboard.py, get_real_ships).                                     *)
(*                                                                         *)
(* Number representation (the source computes in IEEE-754 doubles):        *)
(*   positions  local tangent plane at pier_1, unit 1/600 nm, x east,      *)
(*              y north; a point is [x, y, e] where e is the sign of the   *)
(*              floating-point rounding residue the point carries (0 for   *)
(*              reported and configured points, fp for projected points:  *)
(*              the sin/cos/asin/atan2 chain of predict_position and the   *)
(*              haversine return the exact value or a neighbouring double);*)
(*   distances  Ulp * (squared planar distance) + residue, so that the     *)
(*              order of two distances is the order of their encodings;    *)
(*              a threshold of k/10 nm is Nm10(k);                         *)
(*   speed      tenths of a knot, so that one minute at speed s along a    *)
(*              cardinal course moves the vessel s units;                  *)
(*   D/C ratio  millionths, floor of the exact rational value;             *)
(*   factors    hundredths; base probability in 10^-6, weighted            *)
(*              probability in 10^-8.                                      *)
(***************************************************************************)
EXTENDS Integers, Sequences, FiniteSets, TLC

VARIABLES site, ship_data, fp, pc, analysis, trajectory, collision_risk,
          allision_probability, unit,
          default_prediction_times,   \* the list object behind prediction_times=[5, 10, 15]
          json_file, pending, ships, result,
          ships_data, now, start_time, phase, current_ships

\* the state of the dashboard's loader and of the collector of update_ships.py
dashboardVars == <<json_file, pending, ships, result>>

feedVars == <<ships_data, now, start_time, phase, current_ships>>

vars == <<site, ship_data, fp, pc, analysis, trajectory, collision_risk,
          allision_probability, unit, default_prediction_times, dashboardVars, feedVars>>

None == "None"

(***************************************************************************)
(* Bounds of the model                                                     *)
(***************************************************************************)
MaxRing == 3
MaxSpeedStep == 4
\* vessels in the file the dashboard loads
MaxBatch == 2
\* the collector's vessel limit, and the seconds its clock is followed for
MaxVessels == 3
MaxClock == 300

(***************************************************************************)
(* Site model: BRIDGE_LAT/BRIDGE_LON and TOBIN_BRIDGE_PIERS                *)
(***************************************************************************)
Pt(x, y) == [x |-> x, y |-> y, e |-> 0]

BRIDGE == Pt(22, 34)

PierOrder == <<"pier_1", "pier_2", "pier_3">>

PierIds == {PierOrder[i] : i \in 1..Len(PierOrder)}

TOBIN_BRIDGE_PIERS ==
  [ pier_1 |-> [name |-> "Pier 1", pos |-> Pt(0, 0),
                lateral_capacity_kips |-> 5000, water_depth_ft |-> 35],
    pier_2 |-> [name |-> "Pier 2", pos |-> Pt(44, 66),
                lateral_capacity_kips |-> 5000, water_depth_ft |-> 35],
    pier_3 |-> [name |-> "Pier 3", pos |-> Pt(64, 94),
                lateral_capacity_kips |-> 5000, water_depth_ft |-> 35] ]

(***************************************************************************)
(* Structural impact model                                                 *)
(***************************************************************************)
\* A ship-type label is kept as the sequence of its upper-cased words;
\* `"CARGO" in str(ship_type).upper()` is membership of the word.
HasWord(ship_type, w) == \E i \in 1..Len(ship_type) : ship_type[i] = w

\* An unknown length (None) is carried as 0: both take the keyword branch.
estimate_dwt_from_ais(ship_type, length, width) ==
  IF length = 0
  THEN IF HasWord(ship_type, "CARGO") \/ HasWord(ship_type, "CONTAINER") THEN 15000
       ELSE IF HasWord(ship_type, "TANKER") THEN 20000
       ELSE IF HasWord(ship_type, "PASSENGER") \/ HasWord(ship_type, "FERRY") THEN 1000
       ELSE 5000
  ELSE IF length > 250 THEN 50000
  ELSE IF length > 150 THEN 20000
  ELSE IF length > 100 THEN 10000
  ELSE IF length > 50 THEN 3000
  ELSE 1000

\* estimate_vessel_draft with inclusive class boundaries
estimate_vessel_draft_inclusive(dwt_tons, ship_type) ==
  IF dwt_tons >= 50000 THEN 45
  ELSE IF dwt_tons >= 20000 THEN 35
  ELSE IF dwt_tons >= 10000 THEN 28
  ELSE IF dwt_tons >= 5000 THEN 22
  ELSE IF dwt_tons >= 1000 THEN 15
  ELSE 10

estimate_vessel_draft(dwt_tons, ship_type) ==
  IF dwt_tons > 50000 THEN 45
  ELSE IF dwt_tons > 20000 THEN 35
  ELSE IF dwt_tons > 10000 THEN 28
  ELSE IF dwt_tons > 5000 THEN 22
  ELSE IF dwt_tons > 1000 THEN 15
  ELSE 10

GROUNDING_THRESHOLD == -10

check_grounding_risk_inclusive(vessel_draft_ft, water_depth_ft) ==
  LET clearance == water_depth_ft - vessel_draft_ft
  IN  [will_ground |-> (clearance <= GROUNDING_THRESHOLD), clearance |-> clearance]

\* check_grounding_risk with the operands of the subtraction exchanged
check_grounding_risk_swapped(vessel_draft_ft, water_depth_ft) ==
  LET clearance == vessel_draft_ft - water_depth_ft
  IN  [will_ground |-> (clearance < GROUNDING_THRESHOLD), clearance |-> clearance]

check_grounding_risk(vessel_draft_ft, water_depth_ft) ==
  LET clearance == water_depth_ft - vessel_draft_ft
  IN  [will_ground |-> (clearance < GROUNDING_THRESHOLD), clearance |-> clearance]

\* Exact floor(n * a / b) and remainder without leaving 32-bit integers:
\* n * a = q * b + r with 0 <= r < b, by binary expansion of n.
RECURSIVE MulDivQR(_, _, _)
MulDivQR(n, a, b) ==
  IF n = 0 THEN <<0, 0>>
  ELSE LET h == MulDivQR(n \div 2, a, b)
           r2 == 2 * h[2] + (IF n % 2 = 1 THEN a ELSE 0)
       IN  <<2 * h[1] + (r2 \div b), r2 % b>>

MulDiv(n, a, b) == MulDivQR(n, a, b)[1]

\* speed_fps = speed_knots * 1.688, C = 1.2, g = 32.2
FpsPerKnotMilli == 1688
CTenths == 12
GTenths == 322

\* force_kips = speed_fps^2 * dwt * C / (2g).  With the speed s in tenths of
\* a knot and the tonnage in whole thousands (every rung of the DWT ladder is
\* one) this is  s^2 * (dwt/1000) * ForceNum / ForceDen  kips exactly; the
\* force is carried as the integer s^2 * (dwt/1000), i.e. in units of
\* ForceNum/ForceDen (about 0.531) kips.
ForceNum == FpsPerKnotMilli * FpsPerKnotMilli * CTenths
ForceDen == 2 * GTenths * 100000

calculate_impact_force_aashto(dwt_long_tons, speed_knots) ==
  speed_knots * speed_knots * (dwt_long_tons \div 1000)

\* impact / capacity in millionths (floor); 0 when the capacity is 0.
calculate_dc_ratio(impact_force_kips, pier_capacity_kips) ==
  IF pier_capacity_kips = 0 THEN 0
  ELSE MulDiv(impact_force_kips, ForceNum * 10, (ForceDen \div 100000) * pier_capacity_kips)

Ratio100(k) == k * 10000

assess_threat_level(dc_ratio) ==
  IF dc_ratio >= Ratio100(100) THEN "CRITICAL"
  ELSE IF dc_ratio >= Ratio100(75) THEN "WARNING"
  ELSE IF dc_ratio >= Ratio100(50) THEN "WATCH"
  ELSE "NORMAL"

(***************************************************************************)
(* Geodesy                                                                 *)
(***************************************************************************)
Ulp == 3

\* k tenths of a nautical mile as an encoded distance
Nm10(k) == Ulp * (60 * k) * (60 * k)

\* Haversine distance in nautical miles, encoded (see the header).
calculate_distance(a, b) ==
  Ulp * ((a.x - b.x) * (a.x - b.x) + (a.y - b.y) * (a.y - b.y)) + a.e + b.e

\* find_closest_pier: scan in dictionary order, strict <, start at +infinity
\* (acc.pier = None stands for min_distance = inf).
RECURSIVE ScanPiers(_, _, _)
ScanPiers(p, i, acc) ==
  IF i > Len(PierOrder) THEN acc
  ELSE LET d == calculate_distance(p, site.piers[PierOrder[i]].pos)
       IN  ScanPiers(p, i + 1,
             IF acc.pier = None \/ d < acc.distance
             THEN [pier |-> PierOrder[i], distance |-> d] ELSE acc)

RECURSIVE ScanPiersLast(_, _, _)
ScanPiersLast(p, i, acc) ==
  IF i > Len(PierOrder) THEN acc
  ELSE LET d == calculate_distance(p, site.piers[PierOrder[i]].pos)
       IN  ScanPiersLast(p, i + 1,
             IF acc.pier = None \/ d <= acc.distance
             THEN [pier |-> PierOrder[i], distance |-> d] ELSE acc)

find_closest_pier_last(p) == ScanPiersLast(p, 1, [pier |-> None, distance |-> 0])

find_closest_pier(p) == ScanPiers(p, 1, [pier |-> None, distance |-> 0])


(***************************************************************************)
(* analyze_vessel                                                          *)
(***************************************************************************)
\* A missing or empty Dimension dictionary reads as 0 on every side
\* (dims.get(k, 0), and `if dims else 0`).
NoDims == [A |-> 0, B |-> 0, C |-> 0, D |-> 0]

DimLength(dims) == dims.A + dims.B

DimWidth(dims) == dims.C + dims.D

analyze_vessel_force_kept(ship) ==
  LET closest  == find_closest_pier(ship.pos)
      pier     == site.piers[closest.pier]
      dwt      == estimate_dwt_from_ais(ship.ShipType, DimLength(ship.Dimension),
                                        DimWidth(ship.Dimension))
      draft    == estimate_vessel_draft(dwt, ship.ShipType)
      g        == check_grounding_risk(draft, pier.water_depth_ft)
      force    == calculate_impact_force_aashto(dwt, ship.Sog)
      dc       == calculate_dc_ratio(force, pier.lateral_capacity_kips)
  IN  [ closest_pier_id |-> closest.pier,
        pier_name |-> pier.name,
        distance_to_pier_nm |-> closest.distance,
        distance_from_bridge_nm |-> calculate_distance(ship.pos, site.bridge),
        dwt_tons |-> dwt,
        vessel_draft_ft |-> draft,
        water_depth_ft |-> pier.water_depth_ft,
        ukc_ft |-> g.clearance,
        will_ground |-> g.will_ground,
        impact_force_kips |-> force,
        pier_lateral_capacity_kips |-> pier.lateral_capacity_kips,
        dc_ratio |-> dc,
        status |-> IF g.will_ground THEN "GROUNDED" ELSE assess_threat_level(dc) ]

analyze_vessel(ship) ==
  LET closest  == find_closest_pier(ship.pos)
      pier     == site.piers[closest.pier]
      dwt      == estimate_dwt_from_ais(ship.ShipType, DimLength(ship.Dimension),
                                        DimWidth(ship.Dimension))
      draft    == estimate_vessel_draft(dwt, ship.ShipType)
      g        == check_grounding_risk(draft, pier.water_depth_ft)
      force    == IF g.will_ground THEN 0
                  ELSE calculate_impact_force_aashto(dwt, ship.Sog)
      dc       == IF g.will_ground THEN 0
                  ELSE calculate_dc_ratio(force, pier.lateral_capacity_kips)
  IN  [ closest_pier_id |-> closest.pier,
        pier_name |-> pier.name,
        distance_to_pier_nm |-> closest.distance,
        distance_from_bridge_nm |-> calculate_distance(ship.pos, site.bridge),
        dwt_tons |-> dwt,
        vessel_draft_ft |-> draft,
        water_depth_ft |-> pier.water_depth_ft,
        ukc_ft |-> g.clearance,
        will_ground |-> g.will_ground,
        impact_force_kips |-> force,
        pier_lateral_capacity_kips |-> pier.lateral_capacity_kips,
        dc_ratio |-> dc,
        status |-> IF g.will_ground THEN "GROUNDED" ELSE assess_threat_level(dc) ]

(***************************************************************************)
(* Trajectory and CPA solver                                               *)
(***************************************************************************)
\* Unit vector of a course; the model's courses are the cardinal ones.
CourseDir(course_degrees) ==
  CASE course_degrees = 0   -> <<0, 1>>
    [] course_degrees = 90  -> <<1, 0>>
    [] course_degrees = 180 -> <<0, -1>>
    [] course_degrees = 270 -> <<-1, 0>>

\* distance_nm = speed_knots * (time_minutes / 60): speed * t grid units.
predict_position(p, speed_knots, course_degrees, time_minutes) ==
  LET d == speed_knots * time_minutes
      u == CourseDir(course_degrees)
  IN  [x |-> p.x + d * u[1], y |-> p.y + d * u[2], e |-> fp]

STATIONARY_KNOTS == 5
CPA_HORIZON == 60
CPA_PATIENCE == 5

\* The scan giving up two minutes after the running minimum
RECURSIVE CPAScan_impatient(_, _, _, _, _, _, _)
CPAScan_impatient(p, speed, course, target, t, min_distance, min_distance_time) ==
  IF t > CPA_HORIZON
  THEN [distance |-> min_distance, time |-> min_distance_time, samples |-> t - 1]
  ELSE LET future_distance ==
             calculate_distance(predict_position(p, speed, course, t), target)
           better == future_distance < min_distance
           md == IF better THEN future_distance ELSE min_distance
           mt == IF better THEN t ELSE min_distance_time
       IN  IF t > mt + 2 /\ future_distance > md
           THEN [distance |-> md, time |-> mt, samples |-> t]
           ELSE CPAScan_impatient(p, speed, course, target, t + 1, md, mt)

\* The scan taking one sample beyond the horizon
RECURSIVE CPAScan_one_more(_, _, _, _, _, _, _)
CPAScan_one_more(p, speed, course, target, t, min_distance, min_distance_time) ==
  IF t > CPA_HORIZON + 1
  THEN [distance |-> min_distance, time |-> min_distance_time, samples |-> t - 1]
  ELSE LET future_distance ==
             calculate_distance(predict_position(p, speed, course, t), target)
           better == future_distance < min_distance
           md == IF better THEN future_distance ELSE min_distance
           mt == IF better THEN t ELSE min_distance_time
       IN  IF t > mt + CPA_PATIENCE /\ future_distance > md
           THEN [distance |-> md, time |-> mt, samples |-> t]
           ELSE CPAScan_one_more(p, speed, course, target, t + 1, md, mt)

\* The for-loop of calculate_closest_point_of_approach from minute t on;
\* samples is the number of minutes evaluated when the loop ends.
RECURSIVE CPAScan(_, _, _, _, _, _, _)
CPAScan(p, speed, course, target, t, min_distance, min_distance_time) ==
  IF t > CPA_HORIZON
  THEN [distance |-> min_distance, time |-> min_distance_time, samples |-> t - 1]
  ELSE LET future_distance ==
             calculate_distance(predict_position(p, speed, course, t), target)
           better == future_distance < min_distance
           md == IF better THEN future_distance ELSE min_distance
           mt == IF better THEN t ELSE min_distance_time
       IN  IF t > mt + CPA_PATIENCE /\ future_distance > md
           THEN [distance |-> md, time |-> mt, samples |-> t]
           ELSE CPAScan(p, speed, course, target, t + 1, md, mt)

CPALoop(p, speed, course, target) ==
  CPAScan(p, speed, course, target, 1, calculate_distance(p, target), 0)

\* the number of projected positions one call of
\* calculate_closest_point_of_approach evaluates
CPASamples(p, speed_knots, course_degrees, target) ==
  IF speed_knots < STATIONARY_KNOTS THEN 0
  ELSE CPALoop(p, speed_knots, course_degrees, target).samples

\* The CPA solver treating everything under 1.0 kn as stationary
calculate_closest_point_of_approach_slow_cutoff(p, speed_knots, course_degrees, target) ==
  IF speed_knots < 2 * STATIONARY_KNOTS
  THEN [cpa_distance_nm |-> calculate_distance(p, target),
        cpa_time_minutes |-> 0, will_approach |-> FALSE]
  ELSE LET current_distance == calculate_distance(p, target)
           r == CPALoop(p, speed_knots, course_degrees, target)
       IN  [cpa_distance_nm |-> r.distance,
            cpa_time_minutes |-> r.time,
            will_approach |-> (r.distance < current_distance /\ r.time > 0)]

calculate_closest_point_of_approach_nonstrict(p, speed_knots, course_degrees, target) ==
  IF speed_knots < STATIONARY_KNOTS
  THEN [cpa_distance_nm |-> calculate_distance(p, target),
        cpa_time_minutes |-> 0, will_approach |-> FALSE]
  ELSE LET current_distance == calculate_distance(p, target)
           r == CPALoop(p, speed_knots, course_degrees, target)
       IN  [cpa_distance_nm |-> r.distance,
            cpa_time_minutes |-> r.time,
            will_approach |-> (r.distance <= current_distance)]

calculate_closest_point_of_approach_moving(p, speed_knots, course_degrees, target) ==
  LET current_distance == calculate_distance(p, target)
      r == CPALoop(p, speed_knots, course_degrees, target)
  IN  [cpa_distance_nm |-> r.distance,
       cpa_time_minutes |-> r.time,
       will_approach |-> (r.distance < current_distance /\ r.time > 0)]

calculate_closest_point_of_approach(p, speed_knots, course_degrees, target) ==
  IF speed_knots < STATIONARY_KNOTS
  THEN [cpa_distance_nm |-> calculate_distance(p, target),
        cpa_time_minutes |-> 0, will_approach |-> FALSE]
  ELSE LET current_distance == calculate_distance(p, target)
           r == CPALoop(p, speed_knots, course_degrees, target)
       IN  [cpa_distance_nm |-> r.distance,
            cpa_time_minutes |-> r.time,
            will_approach |-> (r.distance < current_distance /\ r.time > 0)]

PREDICTION_TIMES == <<5, 10, 15>>

predict_trajectory(ship, prediction_times) ==
  [i \in 1..Len(prediction_times) |->
     LET pred == predict_position(ship.pos, ship.Sog, ship.Cog, prediction_times[i])
     IN  [time_minutes |-> prediction_times[i],
          position |-> pred,
          distance_to_bridge_nm |-> calculate_distance(pred, site.bridge)]]


(***************************************************************************)
(* Threat classifier                                                       *)
(***************************************************************************)
NEGLIGIBLE == "NEGLIGIBLE THREAT"

\* time_to_impact = None
NoTime == -1

\* RiskRules with the stationary rule tested after the MONITOR rule
RiskRules_monitor_first(will_ground, approaching, dc_ratio, distance_to_pier, speed) ==
  IF will_ground
    THEN <<NEGLIGIBLE, "Vessel will ground before pier">>
  ELSE IF ~approaching /\ distance_to_pier > Nm10(10)
    THEN <<NEGLIGIBLE, "Vessel headed away - Routine tracking">>
  ELSE IF dc_ratio < Ratio100(50)
    THEN <<NEGLIGIBLE, "Vessel too small - Routine tracking">>
  ELSE IF distance_to_pier > Nm10(100)
    THEN <<NEGLIGIBLE, "Vessel far from bridge - Routine tracking">>
  ELSE IF dc_ratio >= Ratio100(100) /\ speed > 150 /\ approaching
          /\ distance_to_pier < Nm10(20)
    THEN <<"ALARM", "Excessive speed approaching bridge - Close bridge immediately">>
  ELSE IF dc_ratio >= Ratio100(75) /\ approaching /\ distance_to_pier < Nm10(50)
    THEN <<"ELEVATED MONITORING", "Large vessel approaching - Routine transit expected">>
  ELSE IF dc_ratio >= Ratio100(50) /\ distance_to_pier < Nm10(100)
    THEN <<"MONITOR", "Large vessel in the area - Routine tracking">>
  ELSE IF speed < 5
    THEN <<NEGLIGIBLE, "Vessel stationary - Routine tracking">>
  ELSE <<NEGLIGIBLE,
         "Vessel too small, deep drafted, far, or headed away - Routine tracking">>

\* RiskRules without the headed-away rule
RiskRules_no_headed_away(will_ground, approaching, dc_ratio, distance_to_pier, speed) ==
  IF will_ground
    THEN <<NEGLIGIBLE, "Vessel will ground before pier">>
  ELSE IF dc_ratio < Ratio100(50)
    THEN <<NEGLIGIBLE, "Vessel too small - Routine tracking">>
  ELSE IF distance_to_pier > Nm10(100)
    THEN <<NEGLIGIBLE, "Vessel far from bridge - Routine tracking">>
  ELSE IF speed < 5
    THEN <<NEGLIGIBLE, "Vessel stationary - Routine tracking">>
  ELSE IF dc_ratio >= Ratio100(100) /\ speed > 150 /\ approaching
          /\ distance_to_pier < Nm10(20)
    THEN <<"ALARM", "Excessive speed approaching bridge - Close bridge immediately">>
  ELSE IF dc_ratio >= Ratio100(75) /\ approaching /\ distance_to_pier < Nm10(50)
    THEN <<"ELEVATED MONITORING", "Large vessel approaching - Routine transit expected">>
  ELSE IF dc_ratio >= Ratio100(50) /\ distance_to_pier < Nm10(100)
    THEN <<"MONITOR", "Large vessel in the area - Routine tracking">>
  ELSE <<NEGLIGIBLE,
         "Vessel too small, deep drafted, far, or headed away - Routine tracking">>

\* RiskRules with the too-small rule tested before the headed-away rule
RiskRules_small_first(will_ground, approaching, dc_ratio, distance_to_pier, speed) ==
  IF will_ground
    THEN <<NEGLIGIBLE, "Vessel will ground before pier">>
  ELSE IF dc_ratio < Ratio100(50)
    THEN <<NEGLIGIBLE, "Vessel too small - Routine tracking">>
  ELSE IF ~approaching /\ distance_to_pier > Nm10(10)
    THEN <<NEGLIGIBLE, "Vessel headed away - Routine tracking">>
  ELSE IF distance_to_pier > Nm10(100)
    THEN <<NEGLIGIBLE, "Vessel far from bridge - Routine tracking">>
  ELSE IF speed < 5
    THEN <<NEGLIGIBLE, "Vessel stationary - Routine tracking">>
  ELSE IF dc_ratio >= Ratio100(100) /\ speed > 150 /\ approaching
          /\ distance_to_pier < Nm10(20)
    THEN <<"ALARM", "Excessive speed approaching bridge - Close bridge immediately">>
  ELSE IF dc_ratio >= Ratio100(75) /\ approaching /\ distance_to_pier < Nm10(50)
    THEN <<"ELEVATED MONITORING", "Large vessel approaching - Routine transit expected">>
  ELSE IF dc_ratio >= Ratio100(50) /\ distance_to_pier < Nm10(100)
    THEN <<"MONITOR", "Large vessel in the area - Routine tracking">>
  ELSE <<NEGLIGIBLE,
         "Vessel too small, deep drafted, far, or headed away - Routine tracking">>

\* The if/elif chain of assess_collision_risk: <<risk_level, risk_description>>
\* RiskRules whose MONITOR rule includes the 10 nm boundary
RiskRules_monitor_inclusive(will_ground, approaching, dc_ratio, distance_to_pier, speed) ==
  IF will_ground
    THEN <<NEGLIGIBLE, "Vessel will ground before pier">>
  ELSE IF ~approaching /\ distance_to_pier > Nm10(10)
    THEN <<NEGLIGIBLE, "Vessel headed away - Routine tracking">>
  ELSE IF dc_ratio < Ratio100(50)
    THEN <<NEGLIGIBLE, "Vessel too small - Routine tracking">>
  ELSE IF distance_to_pier > Nm10(100)
    THEN <<NEGLIGIBLE, "Vessel far from bridge - Routine tracking">>
  ELSE IF speed < 5
    THEN <<NEGLIGIBLE, "Vessel stationary - Routine tracking">>
  ELSE IF dc_ratio >= Ratio100(100) /\ speed > 150 /\ approaching
          /\ distance_to_pier < Nm10(20)
    THEN <<"ALARM", "Excessive speed approaching bridge - Close bridge immediately">>
  ELSE IF dc_ratio >= Ratio100(75) /\ approaching /\ distance_to_pier < Nm10(50)
    THEN <<"ELEVATED MONITORING", "Large vessel approaching - Routine transit expected">>
  ELSE IF dc_ratio >= Ratio100(50) /\ distance_to_pier <= Nm10(100)
    THEN <<"MONITOR", "Large vessel in the area - Routine tracking">>
  ELSE <<NEGLIGIBLE,
         "Vessel too small, deep drafted, far, or headed away - Routine tracking">>

\* RiskRules reporting the grounding case under a level of its own
RiskRules_grounded_level(will_ground, approaching, dc_ratio, distance_to_pier, speed) ==
  IF will_ground
    THEN <<"GROUNDED", "Vessel will ground before pier">>
  ELSE IF ~approaching /\ distance_to_pier > Nm10(10)
    THEN <<NEGLIGIBLE, "Vessel headed away - Routine tracking">>
  ELSE IF dc_ratio < Ratio100(50)
    THEN <<NEGLIGIBLE, "Vessel too small - Routine tracking">>
  ELSE IF distance_to_pier > Nm10(100)
    THEN <<NEGLIGIBLE, "Vessel far from bridge - Routine tracking">>
  ELSE IF speed < 5
    THEN <<NEGLIGIBLE, "Vessel stationary - Routine tracking">>
  ELSE IF dc_ratio >= Ratio100(100) /\ speed > 150 /\ approaching
          /\ distance_to_pier < Nm10(20)
    THEN <<"ALARM", "Excessive speed approaching bridge - Close bridge immediately">>
  ELSE IF dc_ratio >= Ratio100(75) /\ approaching /\ distance_to_pier < Nm10(50)
    THEN <<"ELEVATED MONITORING", "Large vessel approaching - Routine transit expected">>
  ELSE IF dc_ratio >= Ratio100(50) /\ distance_to_pier < Nm10(100)
    THEN <<"MONITOR", "Large vessel in the area - Routine tracking">>
  ELSE <<NEGLIGIBLE,
         "Vessel too small, deep drafted, far, or headed away - Routine tracking">>

RiskRules(will_ground, approaching, dc_ratio, distance_to_pier, speed) ==
  IF will_ground
    THEN <<NEGLIGIBLE, "Vessel will ground before pier">>
  ELSE IF ~approaching /\ distance_to_pier > Nm10(10)
    THEN <<NEGLIGIBLE, "Vessel headed away - Routine tracking">>
  ELSE IF dc_ratio < Ratio100(50)
    THEN <<NEGLIGIBLE, "Vessel too small - Routine tracking">>
  ELSE IF distance_to_pier > Nm10(100)
    THEN <<NEGLIGIBLE, "Vessel far from bridge - Routine tracking">>
  ELSE IF speed < 5
    THEN <<NEGLIGIBLE, "Vessel stationary - Routine tracking">>
  ELSE IF dc_ratio >= Ratio100(100) /\ speed > 150 /\ approaching
          /\ distance_to_pier < Nm10(20)
    THEN <<"ALARM", "Excessive speed approaching bridge - Close bridge immediately">>
  ELSE IF dc_ratio >= Ratio100(75) /\ approaching /\ distance_to_pier < Nm10(50)
    THEN <<"ELEVATED MONITORING", "Large vessel approaching - Routine transit expected">>
  ELSE IF dc_ratio >= Ratio100(50) /\ distance_to_pier < Nm10(100)
    THEN <<"MONITOR", "Large vessel in the area - Routine tracking">>
  ELSE <<NEGLIGIBLE,
         "Vessel too small, deep drafted, far, or headed away - Routine tracking">>

\* assess_collision_risk looking 10 minutes ahead for the approaching flag
assess_collision_risk_ten_minutes(ship, an) ==
  LET pier == site.piers[an.closest_pier_id]
      distance_to_pier == an.distance_to_pier_nm
      cpa == calculate_closest_point_of_approach(ship.pos, ship.Sog, ship.Cog, pier.pos)
      approaching ==
        IF ship.Sog > 5
        THEN calculate_distance(predict_position(ship.pos, ship.Sog, ship.Cog, 10),
                                pier.pos) < distance_to_pier
        ELSE FALSE
      rule == RiskRules(an.will_ground, approaching, an.dc_ratio,
                        distance_to_pier, ship.Sog)
  IN  [ risk_level |-> rule[1],
        risk_description |-> rule[2],
        cpa_distance_nm |-> cpa.cpa_distance_nm,
        cpa_time_minutes |-> cpa.cpa_time_minutes,
        will_approach |-> cpa.will_approach,
        time_to_impact |-> IF approaching THEN cpa.cpa_time_minutes ELSE NoTime,
        approaching |-> approaching ]

assess_collision_risk(ship, an) ==
  LET pier == site.piers[an.closest_pier_id]
      distance_to_pier == an.distance_to_pier_nm
      cpa == calculate_closest_point_of_approach(ship.pos, ship.Sog, ship.Cog, pier.pos)
      approaching ==
        IF ship.Sog > 5
        THEN calculate_distance(predict_position(ship.pos, ship.Sog, ship.Cog, 5),
                                pier.pos) < distance_to_pier
        ELSE FALSE
      rule == RiskRules(an.will_ground, approaching, an.dc_ratio,
                        distance_to_pier, ship.Sog)
  IN  [ risk_level |-> rule[1],
        risk_description |-> rule[2],
        cpa_distance_nm |-> cpa.cpa_distance_nm,
        cpa_time_minutes |-> cpa.cpa_time_minutes,
        will_approach |-> cpa.will_approach,
        time_to_impact |-> IF approaching THEN cpa.cpa_time_minutes ELSE NoTime,
        approaching |-> approaching ]

(***************************************************************************)
(* Allision probability estimator                                          *)
(***************************************************************************)
TrajectoryFactor(will_approach, cpa_distance) ==
  IF ~will_approach THEN 0
  ELSE IF cpa_distance > Nm10(5) THEN 0
  ELSE IF cpa_distance > Nm10(3) THEN 20
  ELSE IF cpa_distance > Nm10(1) THEN 50
  ELSE 90

GroundingPrevents(will_ground, ukc) ==
  IF will_ground THEN 95
  ELSE IF ukc < -5 THEN 70
  ELSE IF ukc < 0 THEN 40
  ELSE IF ukc < 5 THEN 10
  ELSE 0

\* ManeuverFactor graded by speed alone
ManeuverFactor_speed_only(speed, distance_to_pier) ==
  IF speed < 5 THEN 0
  ELSE IF speed < 50 THEN 10
  ELSE IF speed < 100 THEN 30
  ELSE IF distance_to_pier > Nm10(3) THEN 50
  ELSE 80

ManeuverFactor(speed, distance_to_pier) ==
  IF speed < 5 THEN 0
  ELSE IF speed < 50 /\ distance_to_pier > Nm10(10) THEN 10
  ELSE IF speed < 100 /\ distance_to_pier > Nm10(5) THEN 30
  ELSE IF distance_to_pier > Nm10(3) THEN 50
  ELSE 80

\* SeverityFactor weighting by the D/C ratio itself once it reaches 1.0
SeverityFactor_unbounded(dc_ratio) ==
  IF dc_ratio < Ratio100(50) THEN 30
  ELSE IF dc_ratio < Ratio100(75) THEN 50
  ELSE IF dc_ratio < Ratio100(100) THEN 70
  ELSE dc_ratio \div 10000

SeverityFactor(dc_ratio) ==
  IF dc_ratio < Ratio100(50) THEN 30
  ELSE IF dc_ratio < Ratio100(75) THEN 50
  ELSE IF dc_ratio < Ratio100(100) THEN 70
  ELSE 100

\* weighted probability in 10^-8
ProbabilityCategory(risk_weighted_probability) ==
  IF risk_weighted_probability < 5000000 THEN "NEGLIGIBLE"
  ELSE IF risk_weighted_probability < 15000000 THEN "LOW"
  ELSE IF risk_weighted_probability < 35000000 THEN "MODERATE"
  ELSE "HIGH"

\* Confidence requiring both a thin clearance and a short range for MODERATE
Confidence_both(trajectory_factor, grounding_prevents, ukc, distance_to_pier) ==
  IF trajectory_factor = 0 \/ grounding_prevents > 90 THEN "HIGH"
  ELSE IF ukc < 5 /\ distance_to_pier < Nm10(5) THEN "MODERATE"
  ELSE "LOW"

Confidence(trajectory_factor, grounding_prevents, ukc, distance_to_pier) ==
  IF trajectory_factor = 0 \/ grounding_prevents > 90 THEN "HIGH"
  ELSE IF ukc < 5 \/ distance_to_pier < Nm10(5) THEN "MODERATE"
  ELSE "LOW"

calculate_allision_probability(ship, an, risk) ==
  LET trajectory_factor  == TrajectoryFactor(risk.will_approach, risk.cpa_distance_nm)
      grounding_prevents == GroundingPrevents(an.will_ground, an.ukc_ft)
      maneuver_factor    == ManeuverFactor(ship.Sog, an.distance_to_pier_nm)
      severity_factor    == SeverityFactor(an.dc_ratio)
      base_probability   == trajectory_factor * (100 - grounding_prevents) * maneuver_factor
      risk_weighted_probability == base_probability * severity_factor
      confidence == Confidence(trajectory_factor, grounding_prevents, an.ukc_ft,
                               an.distance_to_pier_nm)
  IN  [ probability |-> risk_weighted_probability,
        probability_category |-> ProbabilityCategory(risk_weighted_probability),
        confidence |-> confidence,
        factors |-> [trajectory |-> trajectory_factor,
                     grounding |-> grounding_prevents,
                     maneuverability |-> maneuver_factor,
                     severity |-> severity_factor],
        base_probability |-> base_probability,
        severity_factor |-> severity_factor ]


(***************************************************************************)
(* Dashboard marker colour                                                 *)
(***************************************************************************)
get_ship_color(risk_level) ==
  CASE risk_level = "ALARM" -> "red"
    [] risk_level = "ELEVATED MONITORING" -> "orange"
    [] risk_level = "MONITOR" -> "yellow"
    [] risk_level = "NEGLIGIBLE THREAT" -> "green"
    [] risk_level = "GROUNDED" -> "gray"
    [] OTHER -> "blue"

(***************************************************************************)
(* Inputs                                                                  *)
(***************************************************************************)
\* Reported positions: on the meridian south of pier_1 every half mile, at
\* 0.2, 4, 9, 10 and 10.5 nm, 1 nm north of pier_3, abeam of pier_1, and
\* points equidistant from two or three piers.
Positions ==
  {Pt(0, -(300 * k)) : k \in 0..MaxRing}
  \cup {Pt(0, -120), Pt(0, -2400), Pt(0, -5400), Pt(0, -6000), Pt(0, -6300)}
  \cup {Pt(64, 694), Pt(-600, -60)}
  \cup {Pt(70, 1), Pt(110, 40), Pt(1489, -945), Pt(1536, -977)}

Speeds == {50 * k : k \in 0..MaxSpeedStep} \cup {2, 5, 6, 18, 22, 49, 151, 180}

Courses == {0, 90, 180, 270}

Dims(a) == [A |-> a, B |-> a, C |-> 10, D |-> 10]

ShipClasses ==
  {[ShipType |-> t, Dimension |-> NoDims] : t \in {<<"CARGO">>, <<"OIL", "TANKER">>, <<"70">>}}
  \cup {[ShipType |-> <<"CARGO">>, Dimension |-> Dims(a)] : a \in {20, 40, 60, 80, 150}}
  \cup {[ShipType |-> <<"PASSENGER">>, Dimension |-> Dims(0)]}

ShipReports ==
  {[pos |-> p, Sog |-> s, Cog |-> c, ShipType |-> k.ShipType, Dimension |-> k.Dimension] :
     p \in Positions, s \in Speeds, c \in Courses, k \in ShipClasses}

Roundings == {-1, 0, 1}

ConfiguredSite == [piers |-> TOBIN_BRIDGE_PIERS, bridge |-> BRIDGE]

SiteWithDepth(d) ==
  [piers |-> [id \in PierIds |-> [TOBIN_BRIDGE_PIERS[id] EXCEPT !.water_depth_ft = d]],
   bridge |-> BRIDGE]

Sites == {SiteWithDepth(d) : d \in {35, 24}}

\* Arguments of the direct calls
DwtInputs == {1000, 5001, 20000, 50000, 50001, 60000}

DepthInputs == {35, 34, 25, 24}

CallerShips ==
  {[pos |-> p, Sog |-> s, Cog |-> c, ShipType |-> <<"CARGO">>, Dimension |-> NoDims] :
     p \in {Pt(0, -900), Pt(0, -300)}, s \in {0, 2, 5, 6, 150, 151, 200}, c \in {0, 180}}

CallerAnalyses ==
  {[ closest_pier_id |-> "pier_1", pier_name |-> "Pier 1",
     distance_to_pier_nm |-> d, distance_from_bridge_nm |-> d,
     dwt_tons |-> 20000, vessel_draft_ft |-> 35 - g[2], water_depth_ft |-> 35,
     ukc_ft |-> g[2], will_ground |-> g[1],
     impact_force_kips |-> 0, pier_lateral_capacity_kips |-> 5000,
     dc_ratio |-> dc, status |-> IF g[1] THEN "GROUNDED" ELSE assess_threat_level(dc) ] :
     d \in {Nm10(3), Nm10(5), Nm10(10), Nm10(15), Nm10(20), Nm10(50), Nm10(90),
            Nm10(100), Nm10(105)},
     g \in {<<TRUE, -11>>, <<FALSE, -10>>, <<FALSE, -6>>, <<FALSE, -1>>,
            <<FALSE, 3>>, <<FALSE, 7>>},
     dc \in {0, Ratio100(30), Ratio100(50), Ratio100(75), Ratio100(100), Ratio100(120)}}

(***************************************************************************)
(* The dashboard's loader: file contents and results                       *)
(***************************************************************************)
\* A field the feed left null: pos.get('Sog', 0) is None when the key is
\* present without a value
NoValue == -1

\* analyze_vessel raises when it multiplies a null speed (the impact force
\* is not computed for a vessel that grounds); predict_position raises on a
\* null course or speed
AnalyzeRaises(ship) ==
  /\ ship.Sog = NoValue
  /\ ~check_grounding_risk(
         estimate_vessel_draft(
           estimate_dwt_from_ais(ship.ShipType, DimLength(ship.Dimension),
                                 DimWidth(ship.Dimension)),
           ship.ShipType),
         site.piers[find_closest_pier(ship.pos).pier].water_depth_ft).will_ground

TrajectoryRaises(ship) == ship.Cog = NoValue \/ ship.Sog = NoValue

Malformed(ship) == AnalyzeRaises(ship) \/ TrajectoryRaises(ship)

FileReports ==
  {[pos |-> Pt(0, -300), Sog |-> 100, Cog |-> 0, ShipType |-> <<"CARGO">>, Dimension |-> Dims(80)],
   [pos |-> Pt(0, -900), Sog |-> 0, Cog |-> 90, ShipType |-> <<"70">>, Dimension |-> NoDims],
   [pos |-> Pt(0, -300), Sog |-> NoValue, Cog |-> 0, ShipType |-> <<"CARGO">>, Dimension |-> NoDims],
   [pos |-> Pt(0, -900), Sog |-> 50, Cog |-> NoValue, ShipType |-> <<"CARGO">>, Dimension |-> NoDims]}

RECURSIVE SeqsUpTo(_, _)
SeqsUpTo(S, n) ==
  IF n = 0 THEN {<<>>}
  ELSE LET shorter == SeqsUpTo(S, n - 1)
       IN  shorter \cup {Append(q, x) : q \in shorter, x \in S}

JsonFiles ==
  {[state |-> "missing", vessels |-> <<>>], [state |-> "corrupt", vessels |-> <<>>]}
  \cup {[state |-> "ok", vessels |-> v] : v \in SeqsUpTo(FileReports, MaxBatch)}

AllRecords == {"analysis", "trajectory", "collision_risk", "allision_probability"}

\* the keys get_real_ships has attached to the ship dict it is working on
AttachedRecords ==
  CASE pc = "analyzed" -> {"analysis"}
    [] pc = "predicted" -> {"analysis", "trajectory"}
    [] pc = "assessed" -> {"analysis", "trajectory", "collision_risk"}
    [] pc = "done" -> AllRecords
    [] OTHER -> {}

ShipEntry == [ship |-> ship_data, records |-> AttachedRecords]

get_mock_ships_fallback ==
  << [ship |-> [pos |-> Pt(-308, -146), Sog |-> 80, Cog |-> 45, ShipType |-> <<"CARGO">>,
                Dimension |-> [A |-> 75, B |-> 75, C |-> 12, D |-> 12]],
      records |-> AllRecords],
     [ship |-> [pos |-> Pt(489, 214), Sog |-> 120, Cog |-> 225, ShipType |-> <<"PASSENGER">>,
                Dimension |-> [A |-> 40, B |-> 40, C |-> 8, D |-> 8]],
      records |-> AllRecords] >>

NoResult == [returned |-> FALSE, source |-> "none", ships |-> <<>>, update_time |-> None]

Fallback ==
  [returned |-> TRUE, source |-> "fallback", ships |-> get_mock_ships_fallback,
   update_time |-> None]

DashboardIdle ==
  /\ json_file = [state |-> "missing", vessels |-> <<>>]
  /\ pending = <<>>
  /\ ships = <<>>
  /\ result = NoResult

(***************************************************************************)
(* The collector of update_ships.py: messages and file                     *)
(***************************************************************************)
\* VESSEL_LIMIT is 100 in the source; the collector is followed against a
\* limit scaled down to MaxVessels.
VESSEL_LIMIT == MaxVessels

COLLECTION_TIMEOUT == 180

\* MetaData.MMSI of a message; 0 stands for the 'N/A' of a message without one
MMSIs == 0..(MaxVessels + 1)

\* rev tells two position reports of one vessel apart
Messages ==
  {[kind |-> "PositionReport", mmsi |-> m, rev |-> r] : m \in MMSIs, r \in {1, 2}}
  \cup {[kind |-> "Other", mmsi |-> 0, rev |-> 0], [kind |-> "Invalid", mmsi |-> 0, rev |-> 0]}

NoFile == [written |-> FALSE, vessels |-> <<>>]

FeedIdle ==
  /\ ships_data = <<>>
  /\ now = 0
  /\ start_time = 0
  /\ phase = "idle"
  /\ current_ships = NoFile

(***************************************************************************)
(* The per-report pipeline of get_real_ships and direct calls              *)
(***************************************************************************)
NoUnit ==
  [called |-> FALSE, dwt_tons |-> 0, vessel_draft_ft |-> 0, water_depth_ft |-> 0,
   will_ground |-> FALSE, clearance |-> 0]

DefaultShip ==
  [pos |-> Pt(0, 0), Sog |-> 0, Cog |-> 0, ShipType |-> <<"70">>, Dimension |-> NoDims]

\* A report waiting to be analysed
StartState(s) ==
  /\ site = s
  /\ ship_data \in ShipReports
  /\ fp \in Roundings
  /\ pc = "start"
  /\ analysis = None
  /\ trajectory = None
  /\ collision_risk = None
  /\ allision_probability = None
  /\ unit = NoUnit
  /\ default_prediction_times = PREDICTION_TIMES
  /\ DashboardIdle
  /\ FeedIdle

\* The driver of the direct calls of check_grounding_risk
UnitState(s) ==
  /\ site = s
  /\ ship_data = DefaultShip
  /\ fp = 0
  /\ pc = "unit"
  /\ analysis = None
  /\ trajectory = None
  /\ collision_risk = None
  /\ allision_probability = None
  /\ unit = NoUnit
  /\ default_prediction_times = PREDICTION_TIMES
  /\ DashboardIdle
  /\ FeedIdle

\* assess_collision_risk about to be called with an analysis record the
\* caller supplies
CallerState ==
  /\ site = ConfiguredSite
  /\ ship_data \in CallerShips
  /\ fp = 0
  /\ pc = "predicted"
  /\ analysis \in CallerAnalyses
  /\ trajectory = None
  /\ collision_risk = None
  /\ allision_probability = None
  /\ unit = NoUnit
  /\ default_prediction_times = PREDICTION_TIMES
  /\ DashboardIdle
  /\ FeedIdle

Init == StartState(ConfiguredSite) \/ UnitState(ConfiguredSite)

InitSite == \E s \in Sites : StartState(s) \/ UnitState(s)

InitCall == Init \/ CallerState

AnalyzeVessel ==
  /\ pc = "start"
  /\ ~AnalyzeRaises(ship_data)
  /\ analysis' = analyze_vessel(ship_data)
  /\ pc' = "analyzed"
  /\ UNCHANGED <<site, ship_data, fp, trajectory, collision_risk, allision_probability, unit>>
  /\ UNCHANGED <<default_prediction_times, dashboardVars, feedVars>>

\* predict_trajectory growing the list object of its default argument
PredictTrajectory_appends ==
  /\ pc = "analyzed"
  /\ ~TrajectoryRaises(ship_data)
  /\ trajectory' = predict_trajectory(ship_data, default_prediction_times)
  /\ default_prediction_times' = Append(default_prediction_times, 20)
  /\ pc' = "predicted"
  /\ UNCHANGED <<site, ship_data, fp, analysis, collision_risk, allision_probability, unit>>
  /\ UNCHANGED <<dashboardVars, feedVars>>

PredictTrajectory ==
  /\ pc = "analyzed"
  /\ ~TrajectoryRaises(ship_data)
  /\ trajectory' = predict_trajectory(ship_data, default_prediction_times)
  /\ pc' = "predicted"
  /\ UNCHANGED <<site, ship_data, fp, analysis, collision_risk, allision_probability, unit>>
  /\ UNCHANGED <<default_prediction_times, dashboardVars, feedVars>>

AssessCollisionRisk ==
  /\ pc = "predicted"
  /\ collision_risk' = assess_collision_risk(ship_data, analysis)
  /\ pc' = "assessed"
  /\ UNCHANGED <<site, ship_data, fp, analysis, trajectory, allision_probability, unit>>
  /\ UNCHANGED <<default_prediction_times, dashboardVars, feedVars>>

CalculateAllisionProbability ==
  /\ pc = "assessed"
  /\ allision_probability' =
       calculate_allision_probability(ship_data, analysis, collision_risk)
  /\ pc' = "done"
  /\ UNCHANGED <<site, ship_data, fp, analysis, trajectory, collision_risk, unit>>
  /\ UNCHANGED <<default_prediction_times, dashboardVars, feedVars>>

CallCheckGroundingRisk ==
  /\ pc = "unit"
  /\ \E dwt \in DwtInputs, depth \in DepthInputs :
       LET draft == estimate_vessel_draft(dwt, <<"CARGO">>)
           r == check_grounding_risk(draft, depth)
       IN  unit' = [called |-> TRUE, dwt_tons |-> dwt, vessel_draft_ft |-> draft, water_depth_ft |-> depth,
                    will_ground |-> r.will_ground, clearance |-> r.clearance]
  /\ UNCHANGED <<site, ship_data, fp, pc, analysis, trajectory, collision_risk,
                 allision_probability>>
  /\ UNCHANGED <<default_prediction_times, dashboardVars, feedVars>>

Next ==
  \/ AnalyzeVessel
  \/ PredictTrajectory
  \/ AssessCollisionRisk
  \/ CalculateAllisionProbability
  \/ CallCheckGroundingRisk

Spec == Init /\ [][Next]_vars

SpecSite == InitSite /\ [][Next]_vars

SpecCall == InitCall /\ [][Next]_vars

(***************************************************************************)
(* get_real_ships: the loop over the vessels of current_ships.json         *)
(***************************************************************************)
LoaderState ==
  /\ site = ConfiguredSite
  /\ ship_data = DefaultShip
  /\ fp = 0
  /\ pc = "load"
  /\ analysis = None
  /\ trajectory = None
  /\ collision_risk = None
  /\ allision_probability = None
  /\ unit = NoUnit
  /\ default_prediction_times = PREDICTION_TIMES
  /\ json_file \in JsonFiles
  /\ pending = <<>>
  /\ ships = <<>>
  /\ result = NoResult
  /\ FeedIdle

InitLoad == LoaderState

\* the file is missing, or json.load raises: the fallback; else the loop starts
LoadShips ==
  /\ pc = "load"
  /\ IF json_file.state = "ok"
     THEN /\ pending' = json_file.vessels
          /\ pc' = "next"
          /\ UNCHANGED result
     ELSE /\ result' = Fallback
          /\ pc' = "returned"
          /\ UNCHANGED pending
  /\ UNCHANGED <<site, ship_data, fp, analysis, trajectory, collision_risk,
                 allision_probability, unit, default_prediction_times, json_file, ships,
                 feedVars>>

\* `for ship in ships_data`: the next vessel, or the return after the last
NextShip ==
  /\ pc = "next"
  /\ IF pending = <<>>
     THEN /\ result' = [returned |-> TRUE, source |-> "file", ships |-> ships,
                        update_time |-> "timestamp"]
          /\ pc' = "returned"
          /\ UNCHANGED <<ship_data, pending, analysis, trajectory, collision_risk,
                         allision_probability>>
     ELSE /\ ship_data' = Head(pending)
          /\ pending' = Tail(pending)
          /\ pc' = "start"
          /\ analysis' = None
          /\ trajectory' = None
          /\ collision_risk' = None
          /\ allision_probability' = None
          /\ UNCHANGED result
  /\ UNCHANGED <<site, fp, unit, default_prediction_times, json_file, ships, feedVars>>

\* ships.append(ship) once the four records are attached
AppendShip ==
  /\ pc = "done"
  /\ ships' = Append(ships, ShipEntry)
  /\ pc' = "next"
  /\ UNCHANGED <<site, ship_data, fp, analysis, trajectory, collision_risk,
                 allision_probability, unit, default_prediction_times, json_file, pending,
                 result, feedVars>>

\* an exception handler that returns what the loop has gathered so far
RaiseException_partial ==
  /\ \/ pc = "start" /\ AnalyzeRaises(ship_data)
     \/ pc = "analyzed" /\ TrajectoryRaises(ship_data)
  /\ result' = [returned |-> TRUE, source |-> "file", ships |-> Append(ships, ShipEntry),
                update_time |-> "timestamp"]
  /\ pc' = "returned"
  /\ UNCHANGED <<site, ship_data, fp, analysis, trajectory, collision_risk,
                 allision_probability, unit, default_prediction_times, json_file, pending,
                 ships, feedVars>>

\* a step of the loop raises: `except Exception` returns the fallback
RaiseException ==
  /\ \/ pc = "start" /\ AnalyzeRaises(ship_data)
     \/ pc = "analyzed" /\ TrajectoryRaises(ship_data)
  /\ result' = Fallback
  /\ pc' = "returned"
  /\ UNCHANGED <<site, ship_data, fp, analysis, trajectory, collision_risk,
                 allision_probability, unit, default_prediction_times, json_file, pending,
                 ships, feedVars>>

NextLoad ==
  \/ LoadShips
  \/ NextShip
  \/ AnalyzeVessel
  \/ PredictTrajectory
  \/ AssessCollisionRisk
  \/ CalculateAllisionProbability
  \/ AppendShip
  \/ RaiseException

SpecLoad == InitLoad /\ [][NextLoad]_vars

(***************************************************************************)
(* fetch_and_save_ships: the collection loop of update_ships.py            *)
(***************************************************************************)
\* the connection is open and the subscription sent; start_time is taken
CollectorState ==
  /\ site = ConfiguredSite
  /\ ship_data = DefaultShip
  /\ fp = 0
  /\ pc = "feed"
  /\ analysis = None
  /\ trajectory = None
  /\ collision_risk = None
  /\ allision_probability = None
  /\ unit = NoUnit
  /\ default_prediction_times = PREDICTION_TIMES
  /\ DashboardIdle
  /\ ships_data = <<>>
  /\ now = 0
  /\ start_time = 0
  /\ phase = "collecting"
  /\ current_ships = NoFile

InitFeed == CollectorState

\* a search that never finds the vessel
ExistingIndex_none(list, mmsi, i) == 0

\* the index of the entry held for an MMSI, 0 when there is none
RECURSIVE ExistingIndex(_, _, _)
ExistingIndex(list, mmsi, i) ==
  IF i > Len(list) THEN 0
  ELSE IF list[i].mmsi = mmsi THEN i
  ELSE ExistingIndex(list, mmsi, i + 1)

\* a minute passes while the loop waits for the next message
Tick ==
  /\ phase = "collecting"
  /\ now < MaxClock
  /\ now' = now + 60
  /\ UNCHANGED <<site, ship_data, fp, pc, analysis, trajectory, collision_risk,
                 allision_probability, unit, default_prediction_times, dashboardVars,
                 ships_data, start_time, phase, current_ships>>

\* one pass of the body of `async for message_json in websocket`, with the
\* write of current_ships.json that follows a break
ReceiveMessage ==
  /\ phase = "collecting"
  /\ \E message \in Messages :
       IF now - start_time > COLLECTION_TIMEOUT
       THEN /\ current_ships' = [written |-> TRUE, vessels |-> ships_data]
            /\ phase' = "saved"
            /\ UNCHANGED ships_data
       ELSE IF message.kind = "Invalid"
       THEN /\ phase' = "failed"
            /\ UNCHANGED <<ships_data, current_ships>>
       ELSE IF message.kind = "PositionReport"
       THEN LET ship == [mmsi |-> message.mmsi, rev |-> message.rev]
                existing_index == ExistingIndex(ships_data, message.mmsi, 1)
                list == IF existing_index # 0
                        THEN [ships_data EXCEPT ![existing_index] = ship]
                        ELSE Append(ships_data, ship)
            IN  /\ ships_data' = list
                /\ IF Len(list) >= VESSEL_LIMIT
                   THEN /\ current_ships' = [written |-> TRUE, vessels |-> list]
                        /\ phase' = "saved"
                   ELSE UNCHANGED <<current_ships, phase>>
       ELSE UNCHANGED <<ships_data, current_ships, phase>>
  /\ UNCHANGED <<site, ship_data, fp, pc, analysis, trajectory, collision_risk,
                 allision_probability, unit, default_prediction_times, dashboardVars,
                 now, start_time>>

\* the server closes the connection: the loop ends and the file is written
ConnectionClosed ==
  /\ phase = "collecting"
  /\ current_ships' = [written |-> TRUE, vessels |-> ships_data]
  /\ phase' = "saved"
  /\ UNCHANGED <<site, ship_data, fp, pc, analysis, trajectory, collision_risk,
                 allision_probability, unit, default_prediction_times, dashboardVars,
                 ships_data, now, start_time>>

NextFeed ==
  \/ Tick
  \/ ReceiveMessage
  \/ ConnectionClosed

SpecFeed == InitFeed /\ [][NextFeed]_vars


(***************************************************************************)
(* Properties                                                              *)
(***************************************************************************)
Analyzed == pc \in {"analyzed", "predicted", "assessed", "done"}

Assessed == pc \in {"assessed", "done"}

Done == pc = "done"

\* The ordered table of section 4.4 as data: the k-th entry is the condition
\* of rule k and its level.
RuleTable(will_ground, approaching, dc_ratio, distance_to_pier, speed) ==
  << <<will_ground, NEGLIGIBLE>>,
     <<~approaching /\ distance_to_pier > Nm10(10), NEGLIGIBLE>>,
     <<dc_ratio < Ratio100(50), NEGLIGIBLE>>,
     <<distance_to_pier > Nm10(100), NEGLIGIBLE>>,
     <<speed < 5, NEGLIGIBLE>>,
     <<dc_ratio >= Ratio100(100) /\ speed > 150 /\ approaching
         /\ distance_to_pier < Nm10(20), "ALARM">>,
     <<dc_ratio >= Ratio100(75) /\ approaching /\ distance_to_pier < Nm10(50),
       "ELEVATED MONITORING">>,
     <<dc_ratio >= Ratio100(50) /\ distance_to_pier < Nm10(100), "MONITOR">>,
     <<TRUE, NEGLIGIBLE>> >>

FirstMatch(table) ==
  CHOOSE k \in 1..Len(table) : table[k][1] /\ \A j \in 1..(k - 1) : ~table[j][1]

StateRuleTable ==
  RuleTable(analysis.will_ground, collision_risk.approaching, analysis.dc_ratio,
            analysis.distance_to_pier_nm, ship_data.Sog)

\* C1: assess_collision_risk returns the level of the first matching rule of
\* the ordered nine-rule table, for every combination of will_ground,
\* approaching, D/C ratio, distance to pier and speed.
C1_FirstMatchWins ==
  Assessed => collision_risk.risk_level = StateRuleTable[FirstMatch(StateRuleTable)][2]

\* A grounded vessel that also meets every ALARM condition has been assessed.
C1_Witness ==
  /\ Assessed
  /\ analysis.will_ground
  /\ collision_risk.approaching
  /\ analysis.dc_ratio >= Ratio100(100)
  /\ ship_data.Sog > 150
  /\ analysis.distance_to_pier_nm < Nm10(20)
  /\ collision_risk.risk_level = NEGLIGIBLE

\* C2: in every record analyze_vessel returns, will_ground implies that the
\* impact force and the D/C ratio are exactly 0.
C2_GroundedHasNoImpact ==
  (Analyzed /\ analysis.will_ground) =>
     (analysis.impact_force_kips = 0 /\ analysis.dc_ratio = 0)

\* A moving 50000-ton vessel has been analysed as grounding.
C2_Witness ==
  /\ Analyzed
  /\ analysis.will_ground
  /\ ship_data.Sog >= 100
  /\ analysis.dwt_tons = 50000
  /\ analysis.status = "GROUNDED"

\* C3: a vessel that is not approaching and is more than 1.0 nm from its
\* nearest pier is classified NEGLIGIBLE THREAT whatever its D/C ratio and
\* speed.
C3_HeadedAwayIsNegligible ==
  (Assessed /\ ~collision_risk.approaching /\ analysis.distance_to_pier_nm > Nm10(10))
     => collision_risk.risk_level = NEGLIGIBLE

\* The literal case: 20 kn, course directly away, 1.5 nm, D/C at least 1.2.
C3_Witness ==
  /\ Assessed
  /\ ship_data.Sog = 200
  /\ ship_data.Cog = 180
  /\ ship_data.pos = Pt(0, -900)
  /\ analysis.distance_to_pier_nm = Nm10(15)
  /\ analysis.dc_ratio >= Ratio100(120)
  /\ ~collision_risk.approaching
  /\ collision_risk.risk_level = NEGLIGIBLE


NearestPier == site.piers[analysis.closest_pier_id]

\* The course of the report points straight at the point q.
PointedAt(ship, q) ==
  LET u == CourseDir(ship.Cog)
      dx == q.x - ship.pos.x
      dy == q.y - ship.pos.y
  IN  dx * u[2] - dy * u[1] = 0 /\ dx * u[1] + dy * u[2] > 0

ScenarioA ==
  /\ Done
  /\ ship_data.Sog = 180
  /\ analysis.distance_to_pier_nm = Nm10(10)
  /\ PointedAt(ship_data, NearestPier.pos)
  /\ analysis.dwt_tons >= 20000

\* C4: scenario A (1.0 nm from the nearest pier, 18 kn, course straight at
\* that pier, DWT of 20000 or more) yields D/C >= 1.0, ALARM and probability
\* category HIGH.
C4_ScenarioA ==
  ScenarioA =>
     /\ analysis.dc_ratio >= Ratio100(100)
     /\ collision_risk.risk_level = "ALARM"
     /\ allision_probability.probability_category = "HIGH"

ScenarioB == Done /\ ship_data.Sog = 0 /\ analysis.distance_to_pier_nm <= Nm10(100)

\* C5 as stated: scenario B (speed 0, within 10 nm) yields NEGLIGIBLE THREAT
\* with the "stationary" reason of rule 5 and probability category NEGLIGIBLE.
C5_StationaryReason ==
  ScenarioB =>
     /\ collision_risk.risk_level = NEGLIGIBLE
     /\ collision_risk.risk_description = "Vessel stationary - Routine tracking"
     /\ allision_probability.probability_category = "NEGLIGIBLE"

\* C5 amended: scenario B yields NEGLIGIBLE THREAT and probability category
\* NEGLIGIBLE, the reason being "headed away" (rule 2) beyond 1.0 nm and
\* "too small" (rule 3, D/C = 0) within 1.0 nm, never "stationary".
C5_StationaryIsNegligible ==
  ScenarioB =>
     /\ collision_risk.risk_level = NEGLIGIBLE
     /\ collision_risk.risk_description =
          (IF analysis.distance_to_pier_nm > Nm10(10)
           THEN "Vessel headed away - Routine tracking"
           ELSE "Vessel too small - Routine tracking")
     /\ allision_probability.probability_category = "NEGLIGIBLE"

\* A vessel at rest 1.5 nm from its pier has gone through the pipeline.
C5_Witness ==
  /\ ScenarioB
  /\ analysis.distance_to_pier_nm = Nm10(15)
  /\ analysis.dc_ratio = 0
  /\ collision_risk.risk_description = "Vessel headed away - Routine tracking"

\* C6: check_grounding_risk returns clearance = depth - draft and will_ground
\* exactly when clearance < -10 ft; the 45 ft draft of DWT 60000 against a
\* depth of 35 ft gives clearance -10 and will_ground false.
C6_GroundingBoundary ==
  unit.called =>
     /\ unit.clearance = unit.water_depth_ft - unit.vessel_draft_ft
     /\ unit.will_ground <=> (unit.clearance < -10)
     /\ (unit.dwt_tons = 60000 /\ unit.water_depth_ft = 35) =>
           (unit.vessel_draft_ft = 45 /\ unit.clearance = -10 /\ ~unit.will_ground)

\* check_grounding_risk has been called with the draft of DWT 60000 and 35 ft.
C6_Witness ==
  /\ unit.called
  /\ unit.dwt_tons = 60000
  /\ unit.water_depth_ft = 35
  /\ unit.clearance = -10

Targets == {site.piers[id].pos : id \in PierIds} \cup {site.bridge}

\* C7: below 0.5 kn, calculate_closest_point_of_approach returns the current
\* distance to the target, time 0 and will_approach false, for every course,
\* position and target.
C7_StationaryCPA ==
  (pc # "unit" /\ ship_data.Sog < 5) =>
     /\ \A q \in Targets :
          calculate_closest_point_of_approach(ship_data.pos, ship_data.Sog,
                                              ship_data.Cog, q)
            = [cpa_distance_nm |-> Ulp * ((ship_data.pos.x - q.x) * (ship_data.pos.x - q.x)
                                          + (ship_data.pos.y - q.y) * (ship_data.pos.y - q.y)),
               cpa_time_minutes |-> 0, will_approach |-> FALSE]
     /\ Assessed =>
          /\ collision_risk.cpa_distance_nm = analysis.distance_to_pier_nm
          /\ collision_risk.cpa_time_minutes = 0
          /\ ~collision_risk.will_approach

\* A vessel making 0.2 kn straight towards its pier has been assessed.
C7_Witness ==
  /\ Assessed
  /\ ship_data.Sog = 2
  /\ PointedAt(ship_data, NearestPier.pos)
  /\ collision_risk.cpa_time_minutes = 0

\* C8: will_approach holds iff the CPA distance is strictly less than the
\* current distance and the CPA time is strictly positive; the CPA distance
\* never exceeds the current distance, the CPA time is an integer in 0..60 and
\* is 0 exactly when will_approach is false.
C8_WillApproach ==
  Assessed =>
     LET current == calculate_distance(ship_data.pos, NearestPier.pos)
     IN  /\ collision_risk.will_approach <=>
              (collision_risk.cpa_distance_nm < current
                 /\ collision_risk.cpa_time_minutes > 0)
         /\ collision_risk.cpa_distance_nm <= current
         /\ collision_risk.cpa_time_minutes \in 0..60
         /\ (collision_risk.cpa_time_minutes = 0) <=> ~collision_risk.will_approach

\* A moving vessel whose scan found a closer point after the first minute.
C8_Witness ==
  /\ Assessed
  /\ ship_data.Sog >= 5
  /\ collision_risk.will_approach
  /\ collision_risk.cpa_time_minutes > 1
  /\ collision_risk.cpa_distance_nm < analysis.distance_to_pier_nm

PierIndex(id) == CHOOSE i \in 1..Len(PierOrder) : PierOrder[i] = id

\* C9: find_closest_pier returns a pier at minimal distance together with
\* that distance, and among equidistant piers the earliest in iteration order.
C9_ClosestPier ==
  Analyzed =>
     /\ analysis.distance_to_pier_nm = calculate_distance(ship_data.pos, NearestPier.pos)
     /\ \A id \in PierIds :
          LET d == calculate_distance(ship_data.pos, site.piers[id].pos)
          IN  /\ analysis.distance_to_pier_nm <= d
              /\ d = analysis.distance_to_pier_nm =>
                   PierIndex(analysis.closest_pier_id) <= PierIndex(id)

\* A probe point with another pier exactly as near as the one returned.
C9_Witness ==
  /\ Analyzed
  /\ \E id \in PierIds :
       /\ id # analysis.closest_pier_id
       /\ calculate_distance(ship_data.pos, site.piers[id].pos)
            = analysis.distance_to_pier_nm

\* C10: 0 <= probability <= base_probability <= 1 (probability in 10^-8,
\* base_probability in 10^-6).
C10_ProbabilityRange ==
  Done =>
     /\ 0 <= allision_probability.probability
     /\ allision_probability.probability <= 100 * allision_probability.base_probability
     /\ allision_probability.base_probability <= 1000000

\* A positive probability with full severity weight has been computed.
C10_Witness ==
  /\ Done
  /\ allision_probability.probability > 0
  /\ analysis.dc_ratio >= Ratio100(100)
  /\ allision_probability.probability = 100 * allision_probability.base_probability

\* C11: the reported probability is the product trajectory x (1 - grounding)
\* x maneuverability x severity, each factor read from its table: trajectory
\* 0 without an approach or with a CPA beyond 0.5 nm, 0.2 in (0.3, 0.5],
\* 0.5 in (0.1, 0.3], 0.9 up to 0.1 nm; grounding 0.95 when the vessel will
\* ground, else 0.7, 0.4, 0.1, 0.0 by clearance below -5, 0, 5 ft or above;
\* maneuverability 0.0 below 0.5 kn, 0.1 below 5 kn beyond 1.0 nm, 0.3 below
\* 10 kn beyond 0.5 nm, 0.5 beyond 0.3 nm, else 0.8; severity 0.3, 0.5, 0.7,
\* 1.0 by D/C below 0.5, 0.75, 1.0 or above.
C11_Trajectory ==
  LET cpa == collision_risk.cpa_distance_nm
  IN  CASE ~collision_risk.will_approach \/ cpa > Nm10(5) -> 0
        [] collision_risk.will_approach /\ cpa > Nm10(3) /\ cpa <= Nm10(5) -> 20
        [] collision_risk.will_approach /\ cpa > Nm10(1) /\ cpa <= Nm10(3) -> 50
        [] collision_risk.will_approach /\ cpa <= Nm10(1) -> 90

C11_Grounding ==
  LET ukc == analysis.ukc_ft
  IN  CASE analysis.will_ground -> 95
        [] ~analysis.will_ground /\ ukc < -5 -> 70
        [] ~analysis.will_ground /\ ukc >= -5 /\ ukc < 0 -> 40
        [] ~analysis.will_ground /\ ukc >= 0 /\ ukc < 5 -> 10
        [] ~analysis.will_ground /\ ukc >= 5 -> 0

C11_Maneuverability ==
  LET speed == ship_data.Sog
      d == analysis.distance_to_pier_nm
  IN  CASE speed < 5 -> 0
        [] speed >= 5 /\ speed < 50 /\ d > Nm10(10) -> 10
        [] speed >= 5 /\ speed < 100 /\ d > Nm10(5) /\ ~(speed < 50 /\ d > Nm10(10)) -> 30
        [] speed >= 5 /\ ~(speed < 100 /\ d > Nm10(5)) /\ d > Nm10(3) -> 50
        [] speed >= 5 /\ d <= Nm10(3) -> 80

C11_Severity ==
  LET dc == analysis.dc_ratio
  IN  CASE dc < Ratio100(50) -> 30
        [] dc >= Ratio100(50) /\ dc < Ratio100(75) -> 50
        [] dc >= Ratio100(75) /\ dc < Ratio100(100) -> 70
        [] dc >= Ratio100(100) -> 100

C11_ProbabilityFormula ==
  Done =>
    /\ allision_probability.factors =
         [trajectory |-> C11_Trajectory, grounding |-> C11_Grounding,
          maneuverability |-> C11_Maneuverability, severity |-> C11_Severity]
    /\ allision_probability.probability =
         C11_Trajectory * (100 - C11_Grounding) * C11_Maneuverability * C11_Severity

C11_Witness ==
  /\ Done
  /\ allision_probability.factors =
       [trajectory |-> 90, grounding |-> 40, maneuverability |-> 30, severity |-> 70]
  /\ allision_probability.probability = 90 * 60 * 30 * 70

\* C12: the confidence label is HIGH when the trajectory factor is 0 or the
\* grounding factor exceeds 0.9, otherwise MODERATE when the clearance is
\* under 5 ft or the pier is closer than 0.5 nm, otherwise LOW.
C12_ConfidenceLabel ==
  Done =>
    LET f == allision_probability.factors
        high == f.trajectory = 0 \/ f.grounding > 90
        moderate == analysis.ukc_ft < 5 \/ analysis.distance_to_pier_nm < Nm10(5)
    IN  /\ high => allision_probability.confidence = "HIGH"
        /\ ~high /\ moderate => allision_probability.confidence = "MODERATE"
        /\ ~high /\ ~moderate => allision_probability.confidence = "LOW"

C12_Witness ==
  /\ Done
  /\ allision_probability.confidence = "MODERATE"
  /\ allision_probability.factors.trajectory > 0
  /\ analysis.ukc_ft < 5
  /\ analysis.distance_to_pier_nm >= Nm10(5)

\* C13: risk_level is always one of ALARM, ELEVATED MONITORING, MONITOR and
\* NEGLIGIBLE THREAT and never GROUNDED, so the marker never takes the gray
\* of the colour map's GROUNDED entry; GROUNDED is the status of
\* analyze_vessel, set exactly when will_ground is true.
C13_RiskLevels ==
  /\ Assessed =>
       /\ collision_risk.risk_level \in
            {"ALARM", "ELEVATED MONITORING", "MONITOR", "NEGLIGIBLE THREAT"}
       /\ collision_risk.risk_level # "GROUNDED"
       /\ get_ship_color(collision_risk.risk_level) \in {"red", "orange", "yellow", "green"}
  /\ Analyzed => (analysis.status = "GROUNDED" <=> analysis.will_ground)

C13_Witness ==
  /\ Assessed
  /\ analysis.will_ground
  /\ analysis.status = "GROUNDED"
  /\ collision_risk.risk_level = "NEGLIGIBLE THREAT"
  /\ get_ship_color(collision_risk.risk_level) = "green"

\* C14: with the depth held fixed check_grounding_risk is monotonic in the
\* draft: from one call to a call with the same depth and a draft at least as
\* large the clearance never increases and will_ground never returns from
\* true to false.
C14_MonotonicInDraft ==
  [][ ( /\ unit.called
        /\ unit'.called
        /\ unit'.water_depth_ft = unit.water_depth_ft
        /\ unit'.vessel_draft_ft >= unit.vessel_draft_ft )
      => ( /\ unit'.clearance <= unit.clearance
           /\ unit.will_ground => unit'.will_ground ) ]_vars

C14_Witness ==
  /\ unit.called
  /\ unit.water_depth_ft = 34
  /\ unit.vessel_draft_ft = 45
  /\ unit.will_ground
  /\ ~check_grounding_risk(35, unit.water_depth_ft).will_ground
  /\ unit.clearance < check_grounding_risk(35, unit.water_depth_ft).clearance

\* C16: get_real_ships returns either every vessel of the file with all four
\* derived records or, when the file cannot be loaded or any step raises for
\* any vessel, the fallback list with update_time None; no returned vessel
\* carries only some of the records.
C16_AllOrFallback ==
  result.returned =>
    LET failed == json_file.state # "ok"
                  \/ \E i \in 1..Len(json_file.vessels) : Malformed(json_file.vessels[i])
    IN  /\ \A i \in 1..Len(result.ships) : result.ships[i].records = AllRecords
        /\ failed => result = Fallback
        /\ ~failed =>
             /\ result.source = "file"
             /\ result.update_time # None
             /\ Len(result.ships) = Len(json_file.vessels)
             /\ \A i \in 1..Len(result.ships) : result.ships[i].ship = json_file.vessels[i]

C16_Witness ==
  /\ result.returned
  /\ result = Fallback
  /\ json_file.state = "ok"
  /\ Len(ships) = 1
  /\ ship_data.Cog = NoValue
  /\ ship_data.Sog # NoValue
  /\ pc = "returned"

\* C15: no engine operation changes the site model, the default list of
\* prediction times, or a record it was passed: across every step the site
\* and the list are what they were, and across each engine call the report,
\* the analysis and the collision assessment handed to it are unchanged.
C15_Frame ==
  [][ /\ site' = site
      /\ default_prediction_times' = default_prediction_times
      /\ pc \in {"start", "analyzed", "predicted", "assessed"} => ship_data' = ship_data
      /\ pc \in {"analyzed", "predicted", "assessed"} => analysis' = analysis
      /\ pc = "assessed" => collision_risk' = collision_risk ]_vars

C15_Witness ==
  /\ Done
  /\ site = ConfiguredSite
  /\ default_prediction_times = <<5, 10, 15>>
  /\ Len(trajectory) = 3
  /\ ship_data \in ShipReports
  /\ analysis = analyze_vessel(ship_data)
  /\ collision_risk = assess_collision_risk(ship_data, analysis)

\* C17: a call of calculate_closest_point_of_approach ends after evaluating
\* at most 60 projected samples, for every speed, course, position and target.
C17_AtMostSixtySamples ==
  pc \in {"start", "analyzed", "predicted", "assessed", "done"} =>
    \A q \in Targets :
      CPASamples(ship_data.pos, ship_data.Sog, ship_data.Cog, q) \in 0..60

\* A vessel closing on its pier for the whole hour: all 60 minutes are sampled.
C17_Witness ==
  /\ Assessed
  /\ ship_data.Sog >= 5
  /\ CPASamples(ship_data.pos, ship_data.Sog, ship_data.Cog, NearestPier.pos) = 60
  /\ collision_risk.cpa_time_minutes = 60

\* The distance to target q at minute u of the report's track; minute 0 is
\* the reported position.
DistanceAt(u, q) ==
  IF u = 0 THEN calculate_distance(ship_data.pos, q)
  ELSE calculate_distance(predict_position(ship_data.pos, ship_data.Sog, ship_data.Cog, u), q)

\* C18: at 0.5 kn or more the scan samples minutes 1, 2, ... in order; the
\* returned distance is the minimum over the reported position and the
\* minutes sampled, and the returned time the earliest minute attaining it;
\* the scan stops before minute 60 only at a minute more than 5 past the
\* time of the running minimum, when the last 5 consecutive minutes each lie
\* above the minimum and above the minute before.
C18_ScanAndEarlyStop ==
  (pc = "assessed" /\ ship_data.Sog >= 5) =>
    \A q \in Targets :
      LET c == calculate_closest_point_of_approach(ship_data.pos, ship_data.Sog,
                                                   ship_data.Cog, q)
          n == CPASamples(ship_data.pos, ship_data.Sog, ship_data.Cog, q)
      IN  /\ n \in 1..60
          /\ c.cpa_time_minutes \in 0..n
          /\ c.cpa_distance_nm = DistanceAt(c.cpa_time_minutes, q)
          /\ \A u \in 0..n : c.cpa_distance_nm <= DistanceAt(u, q)
          /\ \A u \in 0..(c.cpa_time_minutes - 1) : c.cpa_distance_nm < DistanceAt(u, q)
          /\ n < 60 =>
               /\ n > c.cpa_time_minutes + 5
               /\ \A u \in (n - 4)..n :
                    /\ DistanceAt(u, q) > c.cpa_distance_nm
                    /\ DistanceAt(u, q) > DistanceAt(u - 1, q)

\* A vessel that passes its pier abeam in minute 12 and is dropped at minute 18.
C18_Witness ==
  /\ pc = "assessed"
  /\ ship_data.Sog >= 5
  /\ collision_risk.cpa_time_minutes = 12
  /\ CPASamples(ship_data.pos, ship_data.Sog, ship_data.Cog, NearestPier.pos) = 18

\* C19: the approaching flag is false below 0.5 kn, and at 0.5 kn or more it
\* tells whether the nearest pier is strictly closer from the position
\* projected 5 minutes ahead than from the reported position; the cut-off is
\* the 0.5 kn of the CPA solver and of rule 5.
C19_ApproachingFlag ==
  Assessed =>
    LET current == analysis.distance_to_pier_nm
        ahead == calculate_distance(
                   predict_position(ship_data.pos, ship_data.Sog, ship_data.Cog, 5),
                   site.piers[analysis.closest_pier_id].pos)
    IN  /\ ship_data.Sog < STATIONARY_KNOTS => ~collision_risk.approaching
        /\ ship_data.Sog >= STATIONARY_KNOTS => (collision_risk.approaching <=> ahead < current)

\* C20: while fetch_and_save_ships is still collecting, no more than
\* COLLECTION_TIMEOUT (180) seconds have passed since the start and fewer
\* than VESSEL_LIMIT vessels are held: the collection ends and the file is
\* written by the timeout or at the limit, whatever the feed sends.
C20_StopsByTimeoutOrLimit ==
  phase = "collecting" =>
    /\ now - start_time <= COLLECTION_TIMEOUT
    /\ Len(ships_data) < VESSEL_LIMIT

\* C21: in an assessment computed from the analysis of the same report, the
\* 5-minute approaching flag implies the CPA result: whenever approaching is
\* true, will_approach is true and cpa_time_minutes is at least 1; the scan
\* has then evaluated minute 5.
C21_ApproachingImpliesWillApproach ==
  (Assessed /\ collision_risk.approaching) =>
    /\ collision_risk.will_approach
    /\ collision_risk.cpa_time_minutes >= 1
    /\ CPASamples(ship_data.pos, ship_data.Sog, ship_data.Cog,
                  site.piers[analysis.closest_pier_id].pos) >= 6
    /\ collision_risk.cpa_distance_nm <=
         calculate_distance(predict_position(ship_data.pos, ship_data.Sog, ship_data.Cog, 5),
                            site.piers[analysis.closest_pier_id].pos)

\* A vessel making 0.6 kn that is closer to its pier 5 minutes ahead.
C21_Witness ==
  /\ Assessed
  /\ collision_risk.approaching
  /\ ship_data.Sog = 6
  /\ collision_risk.will_approach
  /\ collision_risk.cpa_time_minutes >= 1

\* C22: with the configured site (every pier 35 ft deep) analyze_vessel never
\* reports grounding: the estimated DWT is one of 1000, 3000, 5000, 10000,
\* 15000, 20000, 50000, the draft is at most 35 ft, ukc_ft >= 0, will_ground
\* is false and the status is not GROUNDED; rule 1 of the classifier and the
\* grounding factors 0.95, 0.7 and 0.4 are not reached end-to-end.
C22_NoGroundingAtConfiguredSite ==
  /\ Analyzed =>
       /\ analysis.dwt_tons \in {1000, 3000, 5000, 10000, 15000, 20000, 50000}
       /\ analysis.vessel_draft_ft <= 35
       /\ analysis.water_depth_ft = 35
       /\ analysis.ukc_ft >= 0
       /\ ~analysis.will_ground
       /\ analysis.status # "GROUNDED"
  /\ Assessed => collision_risk.risk_description # "Vessel will ground before pier"
  /\ Done => allision_probability.factors.grounding \notin {95, 70, 40}

\* The largest class: 300 m reported, DWT 50000, draft 35 ft, no clearance left.
C22_Witness ==
  /\ Done
  /\ analysis.dwt_tons = 50000
  /\ analysis.vessel_draft_ft = 35
  /\ analysis.ukc_ft = 0
  /\ ~analysis.will_ground
  /\ allision_probability.factors.grounding = 10

\* C23: whenever the probability category computed for a report is HIGH, the
\* risk level computed for the same report is not NEGLIGIBLE THREAT.
C23_HighIsNotNegligible ==
  (Done /\ allision_probability.probability_category = "HIGH") =>
     collision_risk.risk_level # "NEGLIGIBLE THREAT"

\* C24: whenever the classifier decides by rule 2 with the reason "Vessel
\* headed away", the CPA result of the same assessment says the vessel is not
\* closing: will_approach is false and cpa_time_minutes is 0.
C24_HeadedAwayAgreesWithCPA ==
  (Assessed /\ collision_risk.risk_description = "Vessel headed away - Routine tracking") =>
     /\ ~collision_risk.will_approach
     /\ collision_risk.cpa_time_minutes = 0

\* C24 as amended: whenever the classifier decides by rule 2, the approaching
\* flag is false and the pier is more than 1.0 nm away; below 0.5 kn the CPA
\* result agrees (will_approach false, time 0), and above 0.5 kn the pier is
\* not closer 5 minutes ahead and the CPA, if any, falls in minutes 1 to 4.
C24_HeadedAwayWithinFiveMinutes ==
  (Assessed /\ collision_risk.risk_description = "Vessel headed away - Routine tracking") =>
     /\ ~collision_risk.approaching
     /\ collision_risk.risk_level = "NEGLIGIBLE THREAT"
     /\ analysis.distance_to_pier_nm > Nm10(10)
     /\ ship_data.Sog < 5 =>
          /\ ~collision_risk.will_approach
          /\ collision_risk.cpa_time_minutes = 0
     /\ ship_data.Sog > 5 =>
          /\ calculate_distance(
               predict_position(ship_data.pos, ship_data.Sog, ship_data.Cog, 5),
               site.piers[analysis.closest_pier_id].pos) >= analysis.distance_to_pier_nm
          /\ collision_risk.cpa_time_minutes \in 0..4
          /\ collision_risk.will_approach <=> collision_risk.cpa_time_minutes >= 1

\* A vessel abeam of its pier that is nearest to it one minute from now and
\* farther than now after five: "headed away", yet will_approach is true.
C24_Witness ==
  /\ Assessed
  /\ collision_risk.risk_description = "Vessel headed away - Routine tracking"
  /\ ship_data.Sog > 5
  /\ collision_risk.will_approach
  /\ collision_risk.cpa_time_minutes \in 1..4

\* C25: the catch-all rule 9 decides exactly when distance_to_pier is 10 nm
\* to the unit with will_ground false, approaching true, D/C >= 0.5 and
\* speed >= 0.5 kn; for every other input one of rules 1 to 8 decides.
C25_CatchAllOnlyAtTenMiles ==
  Assessed =>
    ( collision_risk.risk_description =
        "Vessel too small, deep drafted, far, or headed away - Routine tracking"
      <=> /\ analysis.distance_to_pier_nm = Nm10(100)
          /\ ~analysis.will_ground
          /\ collision_risk.approaching
          /\ analysis.dc_ratio >= Ratio100(50)
          /\ ship_data.Sog >= 5 )

C25_Witness ==
  /\ Assessed
  /\ collision_risk.risk_description =
       "Vessel too small, deep drafted, far, or headed away - Routine tracking"
  /\ collision_risk.risk_level = "NEGLIGIBLE THREAT"
  /\ analysis.distance_to_pier_nm = Nm10(100)
  /\ analysis.dc_ratio >= Ratio100(100)

\* C26: the list collected by fetch_and_save_ships always holds at most one
\* entry per MMSI and at most VESSEL_LIMIT entries; a step that changes it
\* either replaces one entry in place by a report of the same MMSI, leaving
\* length and every other entry as they were, or appends one entry of an
\* MMSI not held before at the end.
C26_OneEntryPerVessel ==
  /\ [](/\ Len(ships_data) <= VESSEL_LIMIT
        /\ \A i, j \in 1..Len(ships_data) :
             ships_data[i].mmsi = ships_data[j].mmsi => i = j)
  /\ [][ ships_data' # ships_data =>
           \/ /\ Len(ships_data') = Len(ships_data)
              /\ \E i \in 1..Len(ships_data) :
                   /\ ships_data'[i].mmsi = ships_data[i].mmsi
                   /\ ships_data'[i].rev # ships_data[i].rev
                   /\ \A j \in 1..Len(ships_data) : j # i => ships_data'[j] = ships_data[j]
           \/ /\ Len(ships_data') = Len(ships_data) + 1
              /\ \A j \in 1..Len(ships_data) :
                   /\ ships_data'[j] = ships_data[j]
                   /\ ships_data[j].mmsi # ships_data'[Len(ships_data')].mmsi ]_vars

\* Two vessels held, the first of them already updated by a second report,
\* one of them without an MMSI.
C26_Witness ==
  /\ phase = "collecting"
  /\ Len(ships_data) = 2
  /\ ships_data[1] = [mmsi |-> 1, rev |-> 2]
  /\ ships_data[2].mmsi = 0


====
